---- MODULE Spec2Model ----
(***************************************************************************)
(* A model of src/core/network/client.ts: the request-body encoder of the  *)
(* Bot API client (includesMedia, buildJSONConfig, buildFormDataConfig,    *)
(* attachFormValue, attachFormMedia), the webhook reply (answerToWebhook)  *)
(* and the error redaction (redactToken).                                  *)
(*                                                                         *)
(* JavaScript values are tagged records.  An object is its sequence of     *)
(* <<key, value>> entries in insertion order, an array its sequence of     *)
(* elements.  A string is one of three shapes: a plain string, the string  *)
(* `attach://<id>` (AttachStr), or a JSON text (JsonText) that carries the *)
(* tree JSON.stringify serialised.                                         *)
(***************************************************************************)
EXTENDS Integers, Sequences, FiniteSets, TLC

VARIABLES
  params,     \* the parameter mapping as the caller built it (never changed)
  payload,    \* the same mapping as the callee sees it (mutated in place)
  call,       \* the function the caller invoked: "none" until it is invoked
  scan,       \* includesMedia: "pending", "true", "false" or "TypeError"
  config,     \* what buildJSONConfig / buildFormDataConfig returned
  form,       \* MultipartStream: the parts added so far, in order
  threads,    \* the pending async calls of attachFormValue and of its items
  launched,   \* how many keys Object.keys(payload).map(...) has called so far
  nextId,     \* how many attachment ids crypto.randomBytes(16) has produced
  response,   \* the inbound http.ServerResponse of answerToWebhook
  hook,       \* answerToWebhook's promise: "idle", "running", "resolved"
  message,    \* error.message of the error handed to redactToken
  thrown      \* whether redactToken has thrown the error

vars == <<params, payload, call, scan, config, form, threads, launched,
          nextId, response, hook, message, thrown>>

----------------------------------------------------------------------------
(* JavaScript values *)

Undef == [t |-> "undefined"]
Null == [t |-> "null"]
Str(s) == [t |-> "string", s |-> s]
Num(n) == [t |-> "number", n |-> n]
Bool(b) == [t |-> "boolean", b |-> b]
Obj(kv) == [t |-> "object", kv |-> kv]
Arr(xs) == [t |-> "array", xs |-> xs]
Stream == [t |-> "stream"]
Buffer == [t |-> "buffer"]
\* the string `attach://${id}`
AttachStr(id) == [t |-> "attach", id |-> id]
\* the string JSON.stringify returned for the tree j
JsonText(j) == [t |-> "jsontext", j |-> j]
\* what JSON.stringify leaves of a stream's or a buffer's own properties
Opaque(of) == [t |-> "opaque", of |-> of]

\* typeof v
TypeOf(v) ==
  CASE v.t \in {"string", "attach", "jsontext"} -> "string"
    [] v.t = "number" -> "number"
    [] v.t = "boolean" -> "boolean"
    [] v.t = "undefined" -> "undefined"
    [] OTHER -> "object"

\* v == null
IsNullish(v) == v.t \in {"undefined", "null"}

\* ToBoolean(v)
Truthy(v) ==
  CASE v.t \in {"undefined", "null"} -> FALSE
    [] v.t = "string" -> v.s # ""
    [] v.t = "number" -> v.n # 0
    [] v.t = "boolean" -> v.b
    [] OTHER -> TRUE

IsArray(v) == v.t = "array"

Keys(o) == IF o.t = "object" THEN {o.kv[i][1] : i \in 1..Len(o.kv)} ELSE {}

\* `k in o`, for an object o
HasKey(o, k) == k \in Keys(o)

\* o[k]: undefined for a key o does not have, and for a primitive o
Get(o, k) ==
  IF HasKey(o, k)
  THEN o.kv[CHOOSE i \in 1..Len(o.kv) : o.kv[i][1] = k][2]
  ELSE Undef

\* { ...o, [k]: v }: an existing key keeps its place, a new one goes last
Put(o, k, v) ==
  IF HasKey(o, k)
  THEN Obj([i \in 1..Len(o.kv) |-> IF o.kv[i][1] = k THEN <<k, v>> ELSE o.kv[i]])
  ELSE Obj(Append(o.kv, <<k, v>>))

\* `${v}` of a string, boolean or number
TemplateString(v) ==
  CASE v.t = "number" -> Str(ToString(v.n))
    [] v.t = "boolean" -> Str(IF v.b THEN "true" ELSE "false")
    [] OTHER -> v

----------------------------------------------------------------------------
(* JSON.stringify *)

\* a replacer that hands every value back, null included
replacerKeepsNull(key, value) == value

\* replacer: a nullish value becomes undefined
replacer(key, value) == IF IsNullish(value) THEN Undef ELSE value

RECURSIVE JSONProperty(_, _, _)
RECURSIVE JSONEntries(_, _)

\* The entries of an object that JSON.stringify keeps: those whose value
\* serialises to something other than undefined.
JSONEntries(kv, rep) ==
  IF kv = <<>> THEN <<>>
  ELSE LET e == JSONProperty(Head(kv)[1], Head(kv)[2], rep)
       IN (IF e = Undef THEN <<>> ELSE << <<Head(kv)[1], e>> >>)
            \o JSONEntries(Tail(kv), rep)

\* SerializeJSONProperty: the tree written for `value` held under `key`,
\* or undefined when nothing is written.  rep: the replacer is passed.
JSONProperty(key, value, rep) ==
  LET w == IF rep THEN replacer(key, value) ELSE value
  IN CASE w.t = "undefined" -> Undef
       [] w.t = "object" -> Obj(JSONEntries(w.kv, rep))
       [] w.t = "array" ->
            Arr([i \in 1..Len(w.xs) |->
                   LET e == JSONProperty("", w.xs[i], rep)
                   IN IF e = Undef THEN Null ELSE e])
       [] w.t \in {"stream", "buffer"} -> Opaque(w.t)
       [] OTHER -> w

\* JSON.stringify(value) and JSON.stringify(value, replacer)
JSONStringify(value, rep) ==
  LET j == JSONProperty("", value, rep)
  IN IF j = Undef THEN Undef ELSE JsonText(j)

----------------------------------------------------------------------------
(* includesMedia *)

\* hasProp(obj, prop) of ../helpers/check, which is applied here to objects
\* only: the mappings below hold no null where the code probes with hasProp.
hasProp(obj, prop) == HasKey(obj, prop)

\* hasPropType(obj, prop, type) of ../helpers/check
hasPropType(obj, prop, type) == hasProp(obj, prop) /\ TypeOf(Get(obj, prop)) = type

\* media.source || media.url
SourceOrUrl(media) == Truthy(Get(media, "source")) \/ Truthy(Get(media, "url"))

RECURSIVE ArraySome(_)
\* value.some(({ media }) => media && typeof media === 'object' && ...):
\* destructuring a null or undefined element throws.
ArraySome(xs) ==
  IF xs = <<>> THEN "false"
  ELSE IF IsNullish(Head(xs)) THEN "TypeError"
  ELSE LET media == Get(Head(xs), "media")
       IN IF Truthy(media) /\ TypeOf(media) = "object" /\ SourceOrUrl(media)
          THEN "true"
          ELSE ArraySome(Tail(xs))

\* The callback of Object.entries(payload).some(...) on one entry.
EntryHasMedia(key, value) ==
  IF key = "link_preview_options" THEN "false"
  ELSE IF IsArray(value) THEN ArraySome(value.xs)
  ELSE IF ~(Truthy(value) /\ TypeOf(value) = "object") THEN "false"
  ELSE IF hasProp(value, "source") /\ Truthy(Get(value, "source")) THEN "true"
  ELSE IF hasProp(value, "url") /\ Truthy(Get(value, "url")) THEN "true"
  ELSE IF ~hasPropType(value, "media", "object") THEN "false"
  ELSE IF hasProp(Get(value, "media"), "source")
            /\ Truthy(Get(Get(value, "media"), "source")) THEN "true"
  ELSE IF hasProp(Get(value, "media"), "url")
            /\ Truthy(Get(Get(value, "media"), "url")) THEN "true"
  ELSE "false"

RECURSIVE EntriesSome(_)
EntriesSome(kv) ==
  IF kv = <<>> THEN "false"
  ELSE LET r == EntryHasMedia(Head(kv)[1], Head(kv)[2])
       IN IF r = "false" THEN EntriesSome(Tail(kv)) ELSE r

\* includesMedia with the link_preview_options exclusion dropped
includesMediaNoExclusion(p) ==
  EntriesSome([i \in 1..Len(p.kv) |->
                 <<IF p.kv[i][1] = "link_preview_options" THEN "other"
                   ELSE p.kv[i][1], p.kv[i][2]>>])

\* includesMedia(payload): "true", "false", or "TypeError" when it throws
includesMedia(p) == EntriesSome(p.kv)

----------------------------------------------------------------------------
(* buildJSONConfig *)

\* The RequestInit buildJSONConfig resolves with.
buildJSONConfig(p) ==
  [kind |-> "body", contentType |-> "application/json",
   body |-> JSONStringify(p, TRUE)]

----------------------------------------------------------------------------
(* The filesystem and the network, as attachFormMedia sees them *)

\* What lies at a path: a regular file, a directory, a symbolic link, or
\* nothing.
PathKind(path) ==
  CASE path = "/tmp/x.jpg" -> "file"
    [] path = "/tmp" -> "dir"
    [] path = "/tmp/link.jpg" -> "link"
    [] OTHER -> "missing"

\* fs/promises realpath of an existing path
Realpath(path) == IF PathKind(path) = "link" THEN "/tmp/x.jpg" ELSE path

\* path.basename
Basename(path) ==
  CASE path = "/tmp/x.jpg" -> "x.jpg"
    [] path = "/tmp/link.jpg" -> "link.jpg"
    [] path = "/tmp" -> "tmp"
    [] path = "/tmp/missing.jpg" -> "missing.jpg"
    [] OTHER -> path

----------------------------------------------------------------------------
(* MultipartStream, attachFormMedia and attachFormValue *)

DEFAULT_EXTENSIONS(id) ==
  CASE id = "audio" -> "mp3"
    [] id = "photo" -> "jpg"
    [] id = "sticker" -> "webp"
    [] id \in {"video", "animation", "video_note"} -> "mp4"
    [] id = "voice" -> "ogg"
    [] OTHER -> ""

FORM_DATA_JSON_FIELDS ==
  <<"results", "reply_markup", "mask_position", "shipping_options", "errors">>

\* crypto.randomBytes(16).toString('hex'): the n-th token drawn in a call
AttachmentId(n) == "id" \o ToString(n)

\* a part whose body is a string
TextPart(name, body) == [kind |-> "text", name |-> name, body |-> body]

\* a part with a filename, whose body is a stream or a buffer
FilePart(name, fileName, body) ==
  [kind |-> "file", name |-> name, fileName |-> fileName, body |-> body]

\* an async call that has not reached an await yet
NewThread(key, item) ==
  [pc |-> "fulfilled", then |-> "", key |-> key, item |-> item,
   media |-> Undef, id |-> "", fileName |-> Undef, aid |-> "", tid |-> "",
   result |-> Undef, err |-> ""]

\* The encoder's state while one synchronous stretch of code runs.
State == [threads |-> threads, form |-> form, nextId |-> nextId,
          config |-> config]

\* form.addPart(part)
AddPart(st, part) == [st EXCEPT !.form = Append(@, part)]

\* The async call t throws: its promise rejects.  The first rejection among
\* the calls Promise.all waits for is the one buildFormDataConfig rejects
\* with.
Reject(st, t, err) ==
  [st EXCEPT !.threads[t].pc = "rejected", !.threads[t].err = err,
             !.config = IF t[2] = 0 /\ @.kind = "pending"
                        THEN [kind |-> "error", err |-> err] ELSE @]

\* The end of attachFormMedia: a stream or a buffer becomes a part,
\* anything else is dropped, and the call returns.
AttachSource(st, t, mediaSource) ==
  IF mediaSource.t \in {"stream", "buffer"}
  THEN [AddPart(st, FilePart(st.threads[t].id, st.threads[t].fileName,
                             mediaSource))
          EXCEPT !.threads[t].pc = "return"]
  ELSE [st EXCEPT !.threads[t].pc = "return"]

\* attachFormMedia that opens a string source without realpath and stat
attachFormMediaNoStat(st, t, media, id, then) ==
  IF IsNullish(media) \/ TypeOf(media) # "object"
  THEN Reject(st, t, "TypeError")
  ELSE
    LET ext == DEFAULT_EXTENSIONS(id)
        fileName ==
          IF IsNullish(Get(media, "filename"))
          THEN Str(id \o "." \o (IF ext = "" THEN "dat" ELSE ext))
          ELSE Get(media, "filename")
        s1 == [st EXCEPT !.threads[t].media = media, !.threads[t].id = id,
                         !.threads[t].fileName = fileName,
                         !.threads[t].then = then]
    IN IF HasKey(media, "url") /\ Get(media, "url") # Undef
       THEN [s1 EXCEPT !.threads[t].pc = "fetch"]
       ELSE IF HasKey(media, "source") /\ Truthy(Get(media, "source"))
       THEN IF TypeOf(Get(media, "source")) = "string"
            THEN [s1 EXCEPT !.threads[t].pc = "open"]
            ELSE AttachSource(s1, t, Get(media, "source"))
       ELSE [s1 EXCEPT !.threads[t].pc = "return"]

\* attachFormMedia(form, media, id, agent), up to its first await; `then`
\* is where its caller goes on once it has returned.
attachFormMedia(st, t, media, id, then) ==
  IF IsNullish(media) \/ TypeOf(media) # "object"
  THEN \* media.filename of null, or `'url' in` a primitive
       Reject(st, t, "TypeError")
  ELSE
    LET ext == DEFAULT_EXTENSIONS(id)
        fileName ==
          IF IsNullish(Get(media, "filename"))
          THEN Str(id \o "." \o (IF ext = "" THEN "dat" ELSE ext))
          ELSE Get(media, "filename")
        s1 == [st EXCEPT !.threads[t].media = media, !.threads[t].id = id,
                         !.threads[t].fileName = fileName,
                         !.threads[t].then = then]
    IN IF HasKey(media, "url") /\ Get(media, "url") # Undef
       THEN [s1 EXCEPT !.threads[t].pc = "fetch"]
       ELSE IF HasKey(media, "source") /\ Truthy(Get(media, "source"))
       THEN IF TypeOf(Get(media, "source")) = "string"
            THEN [s1 EXCEPT !.threads[t].pc = "realpath"]
            ELSE AttachSource(s1, t, Get(media, "source"))
       ELSE [s1 EXCEPT !.threads[t].pc = "return"]

\* One item of an array value: the callback of value.map(async (item) => ...)
\* up to its first await.
ItemStart(st, f, i, key, item) ==
  LET t == <<f, i>>
      s0 == [st EXCEPT !.threads = (t :> NewThread(key, item)) @@ @]
      aid == AttachmentId(s0.nextId + 1)
  IN IF IsNullish(item) THEN Reject(s0, t, "TypeError")
     ELSE IF TypeOf(Get(item, "media")) # "object"
     THEN [s0 EXCEPT !.threads[t].pc = "return",
                     !.threads[t].then = "passthrough"]
     ELSE attachFormMedia(
            [s0 EXCEPT !.nextId = @ + 1, !.threads[t].aid = aid],
            t, Get(item, "media"), aid, "itemMedia")

RECURSIVE ItemsFrom(_, _, _, _, _)
\* value.map(...) over the items i, i+1, ... of the array, in order
ItemsFrom(st, f, i, key, xs) ==
  IF i > Len(xs) THEN st
  ELSE ItemsFrom(ItemStart(st, f, i, key, xs[i]), f, i + 1, key, xs)

\* attachFormValue(form, id, value, agent), up to its first await
attachFormValue(st, f, key, value) ==
  LET t == <<f, 0>>
      s0 == [st EXCEPT !.threads = (t :> NewThread(key, value)) @@ @]
      aid == AttachmentId(s0.nextId + 1)
      s1 == [s0 EXCEPT !.nextId = @ + 1, !.threads[t].aid = aid]
  IN IF IsNullish(value) THEN s0
     ELSE IF TypeOf(value) \in {"string", "boolean", "number"}
     THEN AddPart(s0, TextPart(key, TemplateString(value)))
     ELSE IF key \in {"thumb", "thumbnail"}
     THEN attachFormMedia(s1, t, value, aid, "thumb")
     ELSE IF IsArray(value)
     THEN ItemsFrom([s0 EXCEPT !.threads[t].pc = "join"], f, 1, key, value.xs)
     ELSE IF hasProp(value, "media") /\ hasProp(value, "type")
             /\ Get(value, "media") # Undef /\ Get(value, "type") # Undef
     THEN attachFormMedia(s1, t, Get(value, "media"), aid, "object")
     ELSE attachFormMedia(s0, t, value, key, "plain")

\* The item an array callback resolves with once its media is attached.
ItemResult(th, withThumb) ==
  LET i1 == Put(th.item, "media", AttachStr(th.aid))
  IN IF withThumb THEN Put(i1, "thumbnail", AttachStr(th.tid)) ELSE i1

\* item.thumb ?? item.thumbnail
ItemThumb(item) ==
  IF IsNullish(Get(item, "thumb")) THEN Get(item, "thumbnail")
  ELSE Get(item, "thumb")

\* The caller of attachFormMedia (or of Promise.resolve(item)) goes on after
\* its await.
Continue(st, t) ==
  LET th == st.threads[t]
      done == [st EXCEPT !.threads[t].pc = "fulfilled"]
      tid == AttachmentId(st.nextId + 1)
  IN CASE th.then = "thumb" ->
            AddPart(done, TextPart(th.key, AttachStr(th.aid)))
       [] th.then = "object" ->
            AddPart(done, TextPart(th.key,
              JSONStringify(Put(th.item, "media", AttachStr(th.aid)), FALSE)))
       [] th.then = "passthrough" ->
            [done EXCEPT !.threads[t].result = th.item]
       [] th.then = "itemMedia" ->
            IF TypeOf(ItemThumb(th.item)) = "object"
            THEN attachFormMedia(
                   [st EXCEPT !.nextId = @ + 1, !.threads[t].tid = tid],
                   t, ItemThumb(th.item), tid, "itemThumb")
            ELSE [done EXCEPT !.threads[t].result = ItemResult(th, FALSE)]
       [] th.then = "itemThumb" ->
            [done EXCEPT !.threads[t].result = ItemResult(th, TRUE)]
       [] OTHER -> done

RECURSIVE StringifyFieldsOfStrings(_, _)
\* the pre-pass with its typeof test inverted: only strings are stringified
StringifyFieldsOfStrings(p, fields) ==
  IF fields = <<>> THEN p
  ELSE LET field == Head(fields)
           q == IF hasProp(p, field) /\ TypeOf(Get(p, field)) = "string"
                THEN Put(p, field, JSONStringify(Get(p, field), FALSE))
                ELSE p
       IN StringifyFieldsOfStrings(q, Tail(fields))

RECURSIVE StringifyFields(_, _)
\* The pre-pass of buildFormDataConfig over FORM_DATA_JSON_FIELDS.
StringifyFields(p, fields) ==
  IF fields = <<>> THEN p
  ELSE LET field == Head(fields)
           q == IF hasProp(p, field) /\ TypeOf(Get(p, field)) # "string"
                THEN Put(p, field, JSONStringify(Get(p, field), FALSE))
                ELSE p
       IN StringifyFields(q, Tail(fields))

----------------------------------------------------------------------------
(* Actions *)

NoForm ==
  /\ config = [kind |-> "pending"]
  /\ form = <<>>
  /\ threads = <<>>
  /\ launched = 0
  /\ nextId = 0

NoHook ==
  /\ response = [headersSent |-> FALSE, contentType |-> "", body |-> Undef,
                 state |-> "open"]
  /\ hook = "idle"

NoRedact ==
  /\ message = <<>>
  /\ thrown = FALSE

Apply(st) ==
  /\ threads' = st.threads
  /\ form' = st.form
  /\ nextId' = st.nextId
  /\ config' = st.config

\* The caller evaluates includesMedia(payload).
IncludesMedia ==
  /\ call = "none"
  /\ call' = "scan"
  /\ scan' = includesMedia(payload)
  /\ UNCHANGED <<params, payload, config, form, threads, launched, nextId,
                 response, hook, message, thrown>>

\* The caller calls buildJSONConfig(payload).
BuildJSONConfig ==
  /\ call = "none"
  /\ call' = "json"
  /\ config' = buildJSONConfig(payload)
  /\ UNCHANGED <<params, payload, scan, form, threads, launched, nextId,
                 response, hook, message, thrown>>

\* The caller calls buildFormDataConfig(payload, agent): the pre-pass runs
\* and an empty MultipartStream is made.
BuildFormDataConfig ==
  /\ call = "none"
  /\ call' = "form"
  /\ payload' = StringifyFields(payload, FORM_DATA_JSON_FIELDS)
  /\ UNCHANGED <<params, scan, config, form, threads, launched, nextId,
                 response, hook, message, thrown>>

\* Object.keys(payload).map(...) calls attachFormValue for the next key; the
\* call runs to its first await.
Launch ==
  /\ call = "form"
  /\ launched < Len(payload.kv)
  /\ launched' = launched + 1
  /\ Apply(attachFormValue(State, launched + 1, payload.kv[launched + 1][1],
                           payload.kv[launched + 1][2]))
  /\ UNCHANGED <<params, payload, call, scan, response, hook, message, thrown>>

\* The synchronous map is over: awaited operations may complete.
Awaiting(t, pc) ==
  /\ call = "form"
  /\ launched = Len(payload.kv)
  /\ t \in DOMAIN threads
  /\ threads[t].pc = pc

\* fetch(media.url) resolves: the response body becomes a part.
FetchResolves ==
  \E t \in DOMAIN threads :
    /\ Awaiting(t, "fetch")
    /\ Apply([AddPart(State, FilePart(threads[t].id, threads[t].fileName, Stream))
                EXCEPT !.threads[t].pc = "return"])
    /\ UNCHANGED <<params, payload, call, scan, launched, response, hook,
                   message, thrown>>

\* fetch(media.url) rejects.
FetchRejects ==
  \E t \in DOMAIN threads :
    /\ Awaiting(t, "fetch")
    /\ Apply(Reject(State, t, "FetchError"))
    /\ UNCHANGED <<params, payload, call, scan, launched, response, hook,
                   message, thrown>>

\* realpath(media.source) settles: it rejects when nothing is at the path.
RealpathSettles ==
  \E t \in DOMAIN threads :
    /\ Awaiting(t, "realpath")
    /\ Apply(IF PathKind(Get(threads[t].media, "source").s) = "missing"
             THEN Reject(State, t, "ENOENT")
             ELSE [State EXCEPT !.threads[t].pc = "stat"])
    /\ UNCHANGED <<params, payload, call, scan, launched, response, hook,
                   message, thrown>>

\* stat(source) settles: a regular file is opened, anything else is refused.
StatSettles ==
  \E t \in DOMAIN threads :
    /\ Awaiting(t, "stat")
    /\ LET media == threads[t].media
           path == Get(media, "source").s
       IN Apply(IF PathKind(Realpath(path)) = "file"
                THEN [State EXCEPT
                        !.threads[t].pc = "open",
                        !.threads[t].fileName =
                           IF IsNullish(Get(media, "filename"))
                           THEN Str(Basename(path))
                           ELSE Get(media, "filename")]
                ELSE Reject(State, t, "NotAFile"))
    /\ UNCHANGED <<params, payload, call, scan, launched, response, hook,
                   message, thrown>>

\* `await fs.createReadStream(media.source)` resumes: the stream is attached.
OpenStream ==
  \E t \in DOMAIN threads :
    /\ Awaiting(t, "open")
    /\ Apply(AttachSource(State, t, Stream))
    /\ UNCHANGED <<params, payload, call, scan, launched, response, hook,
                   message, thrown>>

\* attachFormMedia (or Promise.resolve(item)) has returned: its caller
\* resumes after the await.
Resume ==
  \E t \in DOMAIN threads :
    /\ Awaiting(t, "return")
    /\ Apply(Continue(State, t))
    /\ UNCHANGED <<params, payload, call, scan, launched, response, hook,
                   message, thrown>>

ItemsOf(f) == {t \in DOMAIN threads : t[1] = f /\ t[2] > 0}

\* The items gathered in the order their callbacks were started in reverse.
JoinedItemsReversed(f) ==
  LET n == Cardinality(ItemsOf(f))
  IN [i \in 1..n |-> threads[<<f, n + 1 - i>>].result]

\* What Promise.all(value.map(...)) resolves with: the items' results by
\* index, whatever order they settled in.
JoinedItems(f) ==
  [i \in 1..Cardinality(ItemsOf(f)) |-> threads[<<f, i>>].result]

\* Promise.all over the items resolves: the array part is added.
JoinFulfils ==
  \E t \in DOMAIN threads :
    /\ Awaiting(t, "join")
    /\ \A u \in ItemsOf(t[1]) : threads[u].pc = "fulfilled"
    /\ Apply(AddPart([State EXCEPT !.threads[t].pc = "fulfilled"],
                      TextPart(threads[t].key,
                               JSONStringify(Arr(JoinedItems(t[1])), FALSE))))
    /\ UNCHANGED <<params, payload, call, scan, launched, response, hook,
                   message, thrown>>

\* Promise.all over the items rejects with a rejected item's error.
JoinRejects ==
  \E t \in DOMAIN threads :
    /\ Awaiting(t, "join")
    /\ \E u \in ItemsOf(t[1]) :
         /\ threads[u].pc = "rejected"
         /\ Apply(Reject(State, t, threads[u].err))
    /\ UNCHANGED <<params, payload, call, scan, launched, response, hook,
                   message, thrown>>

Boundary == "3f9a"

\* Promise.all over the keys resolves: buildFormDataConfig returns.
ReturnFormData ==
  /\ call = "form"
  /\ launched = Len(payload.kv)
  /\ config.kind = "pending"
  /\ \A t \in DOMAIN threads : t[2] = 0 => threads[t].pc = "fulfilled"
  /\ config' = [kind |-> "body",
                contentType |-> "multipart/form-data; boundary=" \o Boundary,
                body |-> form]
  /\ UNCHANGED <<params, payload, call, scan, form, threads, launched, nextId,
                 response, hook, message, thrown>>

\* answerToWebhook(response, payload, options): the reply is written and the
\* promise resolves, all in one synchronous stretch.  The code after the
\* first `return true` is never run.
AnswerToWebhook ==
  /\ call = "none"
  /\ call' = "hook"
  /\ response.state = "open"
  /\ response' = [response EXCEPT
       !.contentType = IF response.headersSent THEN @ ELSE "application/json",
       !.headersSent = TRUE,
       !.body = JSONStringify(payload, FALSE),
       !.state = "ended"]
  /\ hook' = "resolved"
  /\ UNCHANGED <<params, payload, scan, config, form, threads, launched,
                 nextId, message, thrown>>

\* The response has flushed what end() wrote: it emits 'finish'.
Finish ==
  /\ response.state = "ended"
  /\ response' = [response EXCEPT !.state = "finished"]
  /\ UNCHANGED <<params, payload, call, scan, config, form, threads, launched,
                 nextId, hook, message, thrown>>

----------------------------------------------------------------------------
(* The parameter mappings the encoder is run on *)

MaxFields == 2
MaxItems == 3
MaxScanFields == 2

RefFile == Obj(<< <<"source", Str("/tmp/x.jpg")>> >>)
RefLink == Obj(<< <<"source", Str("/tmp/link.jpg")>> >>)
RefDir == Obj(<< <<"source", Str("/tmp")>> >>)
RefMissing == Obj(<< <<"source", Str("/tmp/missing.jpg")>> >>)
RefEmpty == Obj(<< <<"source", Str("")>> >>)
RefNumber == Obj(<< <<"source", Num(42)>> >>)
RefStream == Obj(<< <<"source", Stream>> >>)
RefBuffer == Obj(<< <<"source", Buffer>>, <<"filename", Str("a.png")>> >>)
RefUrl == Obj(<< <<"url", Str("http://u/a.jpg")>> >>)
RefUrlAndMissing ==
  Obj(<< <<"url", Str("http://u/a.jpg")>>, <<"source", Str("/tmp/missing.jpg")>> >>)
RefNone == Obj(<<>>)

Photo(media) == Obj(<< <<"type", Str("photo")>>, <<"media", media>> >>)
With(o, k, v) == Obj(Append(o.kv, <<k, v>>))

Markup ==
  Obj(<< <<"inline_keyboard", Arr(<< Str("ok") >>)>>, <<"selective", Null>> >>)
Entity == Obj(<< <<"type", Str("bold")>>, <<"offset", Num(0)>>, <<"user", Null>> >>)

\* the values a key is given
ValuesOf(key) ==
  CASE key = "chat_id" -> {Num(7), Null}
    [] key = "caption" -> {Str("hi"), Undef, Bool(TRUE)}
    [] key = "photo" ->
         {RefFile, RefLink, RefDir, RefMissing, RefEmpty, RefNumber, RefStream,
          RefBuffer, RefUrl, RefUrlAndMissing, RefNone, Str("fileid")}
    [] key = "thumb" -> {Str("/tmp/x.jpg"), RefFile, RefEmpty, RefBuffer, Null}
    [] key = "media" ->
         {Photo(RefFile), Photo(Str("fileid")),
          With(Photo(RefNone), "caption", Null), Photo(RefUrl),
          Arr(<< With(Photo(RefStream), "caption", Null) >>),
          Arr(<< With(Photo(Str("fileid")), "caption", Null),
                 With(Photo(RefFile), "thumbnail", RefBuffer) >>),
          Arr(<< Photo(RefNumber) >>),
          Arr(<< Photo(RefDir) >>),
          Arr(<< Photo(RefStream), Null >>)}
    [] key = "reply_markup" -> {Markup, Null, Undef, JsonText(Markup)}
    [] key = "results" -> {Arr(<< Entity >>)}
    [] key = "entities" -> {Arr(<< Entity >>), Arr(<< Entity, Null >>)}
    [] key = "link_preview_options" ->
         {Obj(<< <<"url", Str("http://u")>>, <<"is_disabled", Null>> >>)}
    [] OTHER -> {}

KeyOrder ==
  <<"chat_id", "caption", "photo", "thumb", "media", "reply_markup",
    "results", "entities", "link_preview_options">>

Entries == UNION {{<<i, v>> : v \in ValuesOf(KeyOrder[i])} : i \in 1..Len(KeyOrder)}

\* The mappings of at most n of the keys above, in the order above.
Mappings(n) ==
  {Obj([i \in 1..Len(s) |-> <<KeyOrder[s[i][1]], s[i][2]>>]) :
     s \in {q \in UNION {[1..m -> Entries] : m \in 0..n} :
              \A i \in 1..Len(q) - 1 : q[i][1] < q[i + 1][1]}}

\* the group items of an array value
GroupItems ==
  {With(Photo(RefFile), "caption", Str("one")),
   With(Photo(Str("fileid")), "caption", Null),
   With(Photo(RefUrl), "thumbnail", RefBuffer),
   With(Photo(RefStream), "thumb", RefBuffer),
   Photo(RefMissing),
   Str("fileid")}

\* The mappings that hold one array of at most n group items.
Groups(n) ==
  {Obj(<< <<"media", Arr(xs)>> >>) :
     xs \in UNION {[1..m -> GroupItems] : m \in 0..n}}

InitEncoder(mappings) ==
  /\ params \in mappings
  /\ payload = params
  /\ call = "none"
  /\ scan = "pending"
  /\ NoForm
  /\ NoRedact

Init ==
  /\ InitEncoder(Mappings(MaxFields))
  /\ \E sent \in BOOLEAN :
       response = [headersSent |-> sent,
                   contentType |-> IF sent THEN "text/plain" ELSE "",
                   body |-> Undef, state |-> "open"]
  /\ hook = "idle"

InitGroup ==
  /\ InitEncoder(Groups(MaxItems))
  /\ NoHook

NextForm ==
  \/ BuildFormDataConfig
  \/ Launch
  \/ FetchResolves
  \/ FetchRejects
  \/ RealpathSettles
  \/ StatSettles
  \/ OpenStream
  \/ Resume
  \/ JoinFulfils
  \/ JoinRejects
  \/ ReturnFormData

Next ==
  \/ BuildJSONConfig
  \/ AnswerToWebhook
  \/ Finish
  \/ NextForm

\* Every function of the encoder, run on every mapping of Mappings.
Spec == Init /\ [][Next]_vars

\* buildFormDataConfig run on every array of group items of Groups.
SpecGroup == InitGroup /\ [][NextForm]_vars

----------------------------------------------------------------------------
(* includesMedia on its own, over a wider range of shapes *)

ScanKeys == {"photo", "media", "link_preview_options"}

ScanValues ==
  {Str("fileid"), Null, Num(0), Stream,
   RefFile, RefEmpty, RefUrl, RefBuffer, RefNone,
   Obj(<< <<"url", Str("")>>, <<"is_disabled", Bool(TRUE)>> >>),
   Photo(RefFile), Photo(Str("fileid")), Photo(RefUrl),
   Photo(RefEmpty),
   Obj(<< <<"thumbnail", RefFile>> >>),
   Arr(<<>>),
   Arr(<< Photo(RefFile) >>),
   Arr(<< Photo(Str("fileid")), Photo(RefUrl) >>),
   Arr(<< With(Photo(Str("fileid")), "thumbnail", RefFile) >>),
   Arr(<< RefFile >>),
   Arr(<< Null, Photo(RefFile) >>),
   Arr(<< Photo(RefFile), Null >>),
   Arr(<< Str("fileid"), Photo(RefEmpty) >>)}

\* The mappings of at most n distinct keys of ScanKeys, in any order.
ScanMappings(n) ==
  {Obj(kv) :
     kv \in {q \in UNION {[1..m -> ScanKeys \X ScanValues] : m \in 0..n} :
               \A i, j \in 1..Len(q) : i # j => q[i][1] # q[j][1]}}

InitScan ==
  /\ InitEncoder(ScanMappings(MaxScanFields))
  /\ NoHook

NextScan == IncludesMedia

\* includesMedia run on every mapping of ScanMappings.
SpecScan == InitScan /\ [][NextScan]_vars

----------------------------------------------------------------------------
(* redactToken *)

\* An error message is a sequence of lexemes: "/", ":", the words "bot" and
\* "user", one-digit numerals, and other text without a slash.
Digits == {"1", "7"}

RECURSIVE DigitsEnd(_, _)
\* the first position from i on that holds no digit
DigitsEnd(s, i) ==
  IF i <= Len(s) /\ s[i] \in Digits THEN DigitsEnd(s, i + 1) ELSE i

RECURSIVE NextSlash(_, _)
\* the first position from i on that holds a slash, or 0
NextSlash(s, i) ==
  IF i > Len(s) THEN 0
  ELSE IF s[i] = "/" THEN i
  ELSE NextSlash(s, i + 1)

\* /\/(bot|user)(\d+):[^\/]+\// matches at position i
MatchesAt(s, i) ==
  /\ i + 1 <= Len(s)
  /\ s[i] = "/"
  /\ s[i + 1] \in {"bot", "user"}
  /\ LET d == DigitsEnd(s, i + 2)
     IN /\ d > i + 2
        /\ d <= Len(s)
        /\ s[d] = ":"
        /\ NextSlash(s, d + 1) > d + 1

\* where the colon and the closing slash of the match at i are
ColonOf(s, i) == DigitsEnd(s, i + 2)
CloseOf(s, i) == NextSlash(s, ColonOf(s, i) + 1)

\* error.message.replace(/\/(bot|user)(\d+):[^/]+\//, '/$1$2:[REDACTED]/'):
\* the pattern has no g flag, so the leftmost match alone is replaced.
Replace(s) ==
  IF \E i \in 1..Len(s) : MatchesAt(s, i)
  THEN LET i == CHOOSE k \in 1..Len(s) :
                  MatchesAt(s, k) /\ \A j \in 1..k - 1 : ~MatchesAt(s, j)
       IN SubSeq(s, 1, ColonOf(s, i)) \o <<"[REDACTED]">>
            \o SubSeq(s, CloseOf(s, i), Len(s))
  ELSE s

\* redactToken(error): the message is rewritten and the error thrown.
RedactToken ==
  /\ call = "none"
  /\ call' = "redact"
  /\ message' = Replace(message)
  /\ thrown' = TRUE
  /\ UNCHANGED <<params, payload, scan, config, form, threads, launched,
                 nextId, response, hook>>

MaxSegments == 3

Segments ==
  {<<"/">>, <<"bot">>, <<"7">>, <<":">>, <<"request to https:">>,
   <<"/", "bot", "7", ":", "AAH", "/">>,
   <<"/", "user", "1", "7", ":", "AAH", ":", "x", "/">>,
   <<"/", "bot", ":", "AAH", "/">>}

RECURSIVE Concat(_)
Concat(ss) == IF ss = <<>> THEN <<>> ELSE Head(ss) \o Concat(Tail(ss))

Messages(n) == {Concat(ss) : ss \in UNION {[1..m -> Segments] : m \in 0..n}}

InitRedact ==
  /\ message \in Messages(MaxSegments)
  /\ params = [t |-> "error", message |-> message]
  /\ payload = params
  /\ thrown = FALSE
  /\ call = "none"
  /\ scan = "pending"
  /\ NoForm
  /\ NoHook

NextRedact == RedactToken

\* redactToken run on every message of Messages.
SpecRedact == InitRedact /\ [][NextRedact]_vars

----------------------------------------------------------------------------
(* Vocabulary of the properties *)

\* the parts of a sequence that bear a name
PartsNamed(parts, name) == SelectSeq(parts, LAMBDA q : q.name = name)

FileParts(parts) == SelectSeq(parts, LAMBDA q : q.kind = "file")
TextParts(parts) == SelectSeq(parts, LAMBDA q : q.kind = "text")

\* an object that carries a `source` or a `url` key
IsRef(v) == v.t = "object" /\ (HasKey(v, "source") \/ HasKey(v, "url"))

\* an object with a truthy `source` or `url`
IsUsableRef(v) == v.t = "object" /\ SourceOrUrl(v)

RECURSIVE ContainsRef(_)
\* an attachment reference lies somewhere in v
ContainsRef(v) ==
  \/ IsRef(v)
  \/ v.t = "object" /\ \E i \in 1..Len(v.kv) : ContainsRef(v.kv[i][2])
  \/ v.t = "array" /\ \E i \in 1..Len(v.xs) : ContainsRef(v.xs[i])

RECURSIVE HasNull(_)
\* null occurs somewhere in a JSON tree
HasNull(j) ==
  \/ j = Null
  \/ j.t = "object" /\ \E i \in 1..Len(j.kv) : HasNull(j.kv[i][2])
  \/ j.t = "array" /\ \E i \in 1..Len(j.xs) : HasNull(j.xs[i])
  \/ j.t = "jsontext" /\ HasNull(j.j)

RECURSIVE HasNullUnderKey(_)
\* null occurs as the value of an object key somewhere in a JSON tree
HasNullUnderKey(j) ==
  \/ j.t = "object" /\ \E i \in 1..Len(j.kv) :
                          j.kv[i][2] = Null \/ HasNullUnderKey(j.kv[i][2])
  \/ j.t = "array" /\ \E i \in 1..Len(j.xs) : HasNullUnderKey(j.xs[i])

RECURSIVE AttachIds(_)
\* the ids of the attach:// references written in a string or a JSON tree
AttachIds(v) ==
  CASE v.t = "attach" -> {v.id}
    [] v.t = "jsontext" -> AttachIds(v.j)
    [] v.t = "object" -> UNION {AttachIds(v.kv[i][2]) : i \in 1..Len(v.kv)}
    [] v.t = "array" -> UNION {AttachIds(v.xs[i]) : i \in 1..Len(v.xs)}
    [] OTHER -> {}

\* the ids referenced from the textual parts of a multipart body
ReferencedIds(parts) ==
  UNION {AttachIds(parts[i].body) : i \in {k \in 1..Len(parts) : parts[k].kind = "text"}}

JsonFieldNames == {FORM_DATA_JSON_FIELDS[i] : i \in 1..Len(FORM_DATA_JSON_FIELDS)}

\* buildFormDataConfig has returned a body
FormBuilt == call = "form" /\ config.kind = "body"

\* every key has been handed to attachFormValue
AllLaunched == call = "form" /\ launched = Len(payload.kv)

----------------------------------------------------------------------------
(* C1 *)

\* C1 (as stated): in the body buildFormDataConfig returns, every id that an
\* attach:// reference in a textual part names is the name of exactly one
\* file part, whatever the shape of the attachment reference.
C1_EveryReferenceHasItsPart ==
  FormBuilt =>
    \A id \in ReferencedIds(config.body) :
      Len(PartsNamed(FileParts(config.body), id)) = 1

----------------------------------------------------------------------------
(* C2 *)

\* The mapping holds an attachment reference in one of the places the claim
\* lists, outside link_preview_options.
ClaimedMedia(p) ==
  \E i \in 1..Len(p.kv) :
    LET key == p.kv[i][1]
        v == p.kv[i][2]
    IN /\ key # "link_preview_options"
       /\ \/ IsRef(v)
          \/ IsRef(Get(v, "media"))
          \/ /\ IsArray(v)
             /\ \E j \in 1..Len(v.xs) :
                  \/ IsRef(v.xs[j])
                  \/ IsRef(Get(v.xs[j], "media"))
                  \/ IsRef(Get(v.xs[j], "thumb"))
                  \/ IsRef(Get(v.xs[j], "thumbnail"))

\* The mapping holds what the scan looks for.
DetectedMedia(p) ==
  \E i \in 1..Len(p.kv) :
    LET key == p.kv[i][1]
        v == p.kv[i][2]
    IN /\ key # "link_preview_options"
       /\ IF IsArray(v)
          THEN \E j \in 1..Len(v.xs) : IsUsableRef(Get(v.xs[j], "media"))
          ELSE IsUsableRef(v) \/ IsUsableRef(Get(v, "media"))

\* The mapping holds what makes the scan throw.
Unscannable(p) ==
  \E i \in 1..Len(p.kv) :
    LET v == p.kv[i][2]
    IN IsArray(v) /\ \E j \in 1..Len(v.xs) : IsNullish(v.xs[j])

\* C2 (as stated): includesMedia is true exactly when the mapping holds an
\* attachment reference as a field value, as an array element, under `media`
\* or as the thumbnail of a group item, outside link_preview_options.
C2_ScanFindsEveryReference ==
  scan \in {"true", "false"} => (scan = "true" <=> ClaimedMedia(params))

\* C2 (amended): includesMedia is true exactly when a field not named
\* link_preview_options is an array with an element whose `media` is an
\* object with a truthy source or url, or is a non-array object with a truthy
\* source or url of its own or of its object-valued `media`; it throws only
\* on a null or undefined array element.
C2_ScanRule ==
  /\ scan \in {"true", "false"} => (scan = "true" <=> DetectedMedia(params))
  /\ scan = "TypeError" => Unscannable(params)

\* a reference under link_preview_options beside a detected one
C2_Witness ==
  /\ scan = "true"
  /\ Len(params.kv) = 2
  /\ IsRef(Get(params, "link_preview_options"))
  /\ IsArray(Get(params, "media"))

----------------------------------------------------------------------------
(* C3 *)

\* the fields of the allowlist that the caller gave a non-string value
JsonFieldsGiven ==
  {i \in 1..Len(params.kv) :
     /\ params.kv[i][1] \in JsonFieldNames
     /\ TypeOf(params.kv[i][2]) # "string"
     /\ ~IsNullish(params.kv[i][2])}

\* C3 (as stated): a field of the allowlist with a non-string value is sent
\* as a string in the JSON body and in the multipart body alike.
C3_StringInBothModes ==
  \A i \in JsonFieldsGiven :
    LET key == params.kv[i][1]
    IN /\ call = "json" => TypeOf(Get(config.body.j, key)) = "string"
       /\ FormBuilt =>
            /\ Len(PartsNamed(config.body, key)) = 1
            /\ TypeOf(PartsNamed(config.body, key)[1].body) = "string"

\* C3 (amended): buildFormDataConfig sends such a field as one textual part
\* whose body is the JSON text of the value; buildJSONConfig, which has no
\* pre-pass, embeds the value in the body as nested JSON, not as a string.
C3_StringInMultipartOnly ==
  \A i \in JsonFieldsGiven :
    LET key == params.kv[i][1]
        v == params.kv[i][2]
    IN /\ call = "json" =>
            /\ Get(config.body.j, key) = JSONProperty(key, v, TRUE)
            /\ TypeOf(Get(config.body.j, key)) = "object"
       /\ AllLaunched =>
            PartsNamed(form, key) =
              << TextPart(key, JsonText(JSONProperty(key, v, FALSE))) >>

C3_Witness ==
  /\ FormBuilt
  /\ JsonFieldsGiven # {}
  /\ Len(params.kv) = 2

----------------------------------------------------------------------------
(* C4 *)

\* the top-level fields the caller gave a nullish value
NullishFields == {i \in 1..Len(params.kv) : IsNullish(params.kv[i][2])}

\* the top-level fields that are objects with `media` and `type`
MediaObjects ==
  {i \in 1..Len(params.kv) :
     LET v == params.kv[i][2]
     IN v.t = "object" /\ params.kv[i][1] \notin JsonFieldNames
          /\ params.kv[i][1] \notin {"thumb", "thumbnail"}
          /\ Get(v, "media") # Undef /\ Get(v, "type") # Undef}

\* C4 (as stated): no null is transmitted: none in the JSON body, and in a
\* multipart body no part for a nullish field and no null inside a textual
\* part.
C4_NoNullTransmitted ==
  /\ call = "json" => ~HasNull(config.body.j)
  /\ FormBuilt =>
       /\ \A i \in NullishFields : PartsNamed(config.body, params.kv[i][1]) = <<>>
       /\ \A k \in 1..Len(config.body) :
            config.body[k].kind = "text" => ~HasNull(config.body[k].body)

\* C4 (amended): buildJSONConfig omits every object key, at any depth, whose
\* value is null or undefined, and writes a null or undefined array element
\* as null.  In multipart mode a nullish top-level field produces no part,
\* except a null under a name of the allowlist, which is sent as the text
\* `null`; and a null sub-field of an object with media and type, or of an
\* array item, is written as null in the field's textual part.
C4_NullOmission ==
  /\ call = "json" =>
       /\ ~HasNullUnderKey(config.body.j)
       /\ \A i \in 1..Len(params.kv) :
            LET key == params.kv[i][1]
                v == params.kv[i][2]
            IN /\ IsNullish(v) => Get(config.body.j, key) = Undef
               /\ IsArray(v) =>
                    /\ Len(Get(config.body.j, key).xs) = Len(v.xs)
                    /\ \A j \in 1..Len(v.xs) :
                         IsNullish(v.xs[j]) => Get(config.body.j, key).xs[j] = Null
  /\ AllLaunched =>
       /\ \A i \in NullishFields :
            PartsNamed(form, params.kv[i][1]) =
              IF params.kv[i][1] \in JsonFieldNames /\ params.kv[i][2] = Null
              THEN << TextPart(params.kv[i][1], JsonText(Null)) >>
              ELSE <<>>
       /\ \A i \in MediaObjects :
            \A k \in 1..Len(form) :
              (form[k].kind = "text" /\ form[k].name = params.kv[i][1]) =>
                 \A key \in Keys(params.kv[i][2]) \ {"media"} :
                   Get(params.kv[i][2], key) = Null =>
                     Get(form[k].body.j, key) = Null
       /\ \A i \in 1..Len(params.kv) :
            \A k \in 1..Len(form) :
              (IsArray(params.kv[i][2]) /\ form[k].kind = "text"
                 /\ form[k].name = params.kv[i][1]
                 /\ params.kv[i][1] \notin JsonFieldNames) =>
                 \A j \in 1..Len(params.kv[i][2].xs) :
                   \A key \in Keys(params.kv[i][2].xs[j]) \ {"media", "thumbnail"} :
                     Get(params.kv[i][2].xs[j], key) = Null =>
                       Get(form[k].body.j.xs[j], key) = Null

\* a JSON body built from a mapping with a null key beside an array with a
\* null element
C4_Witness ==
  /\ call = "json"
  /\ Get(params, "chat_id") = Null
  /\ Get(params, "entities") = Arr(<< Entity, Null >>)

----------------------------------------------------------------------------
(* C5 *)

\* the thumbnail fields the caller gave a value
ThumbFields ==
  {i \in 1..Len(params.kv) :
     params.kv[i][1] \in {"thumb", "thumbnail"} /\ ~IsNullish(params.kv[i][2])}

\* C5 (as stated): a thumb or thumbnail field with a value, a string
\* included, yields exactly two parts: a file part named by a fresh id and a
\* textual part under the field name holding attach://<id>.
C5_ThumbIsAlwaysAttached ==
  FormBuilt =>
    \A i \in ThumbFields :
      LET key == params.kv[i][1]
          named == PartsNamed(config.body, key)
      IN /\ Len(named) = 1
         /\ named[1].kind = "text"
         /\ named[1].body.t = "attach"
         /\ Len(PartsNamed(FileParts(config.body), named[1].body.id)) = 1

----------------------------------------------------------------------------
(* C6 *)

\* What the array part holds at the place of one input item.
ItemWritten(item, o) ==
  IF TypeOf(Get(item, "media")) # "object"
  THEN o = JSONProperty("", item, FALSE)
  ELSE /\ o.t = "object"
       /\ Get(o, "media").t = "attach"
       /\ Keys(o) \subseteq Keys(item) \cup {"thumbnail"}
       /\ \A key \in Keys(item) \ {"media", "thumbnail"} :
            Get(o, key) = JSONProperty(key, Get(item, key), FALSE)
       /\ IF TypeOf(ItemThumb(item)) = "object"
          THEN /\ Get(o, "thumbnail").t = "attach"
               /\ Get(o, "thumbnail").id # Get(o, "media").id
          ELSE Get(o, "thumbnail")
                 = JSONProperty("thumbnail", Get(item, "thumbnail"), FALSE)

PlaceOf(id) ==
  IF \E k \in 1..Len(form) : form[k].kind = "file" /\ form[k].name = id
  THEN CHOOSE k \in 1..Len(form) : form[k].kind = "file" /\ form[k].name = id
  ELSE 0

----------------------------------------------------------------------------
(* C7 *)

\* An attachment reference that attachFormMedia reads from a path at which
\* there is no regular file.
IsBadPath(r) ==
  /\ r.t = "object"
  /\ ~(HasKey(r, "url") /\ Get(r, "url") # Undef)
  /\ Get(r, "source").t = "string"
  /\ Get(r, "source").s # ""
  /\ PathKind(Realpath(Get(r, "source").s)) # "file"

\* The references buildFormDataConfig hands to attachFormMedia for one
\* field of the mapping.
ResolvedRefs(key, v) ==
  IF IsNullish(v) \/ TypeOf(v) # "object" \/ key \in JsonFieldNames THEN {}
  ELSE IF key \in {"thumb", "thumbnail"} THEN {v}
  ELSE IF IsArray(v)
  THEN UNION {IF IsNullish(v.xs[j]) \/ TypeOf(Get(v.xs[j], "media")) # "object"
              THEN {}
              ELSE {Get(v.xs[j], "media")} : j \in 1..Len(v.xs)}
  ELSE IF Get(v, "media") # Undef /\ Get(v, "type") # Undef
  THEN {Get(v, "media")}
  ELSE {v}

\* the mapping holds, in a place the encoder resolves, a reference to a
\* path of the given kind
ResolvesPathOfKind(kinds) ==
  \E i \in 1..Len(params.kv) :
    \E r \in ResolvedRefs(params.kv[i][1], params.kv[i][2]) :
      IsBadPath(r) /\ PathKind(Get(r, "source").s) \in kinds

\* C7 (as stated): with an attachment whose string source path does not
\* exist, the encoding fails with the "not a file" error and returns no
\* body.
C7_MissingPathIsNotAFile ==
  (call = "form" /\ config.kind # "pending" /\ ResolvesPathOfKind({"missing"}))
    => config = [kind |-> "error", err |-> "NotAFile"]

\* C7 (amended): when buildFormDataConfig resolves an attachment whose
\* string source is not the path of a regular file, it returns no body,
\* whatever the other fields are and however the resolutions interleave.
\* The resolution of a path that does not exist rejects with the
\* filesystem's ENOENT, and with the "not a file" error only for a path
\* that exists and is no regular file; buildFormDataConfig rejects with
\* the error of the field that rejected first.
C7_BadPathFails ==
  call = "form" =>
    /\ ResolvesPathOfKind({"missing", "dir"}) => config.kind # "body"
    /\ \A t \in DOMAIN threads :
         (threads[t].pc = "rejected" /\ IsBadPath(threads[t].media)) =>
           threads[t].err =
             IF PathKind(Get(threads[t].media, "source").s) = "missing"
             THEN "ENOENT" ELSE "NotAFile"
    /\ config.kind = "error" =>
         /\ \E t \in DOMAIN threads :
              t[2] = 0 /\ threads[t].pc = "rejected" /\ threads[t].err = config.err
         /\ config.err = "ENOENT" => ResolvesPathOfKind({"missing"})
         /\ config.err = "NotAFile" => ResolvesPathOfKind({"dir"})

\* a missing path beside another field: the encoding has failed with ENOENT
\* after every call has settled
C7_Witness ==
  /\ call = "form"
  /\ config = [kind |-> "error", err |-> "ENOENT"]
  /\ Len(params.kv) = 2
  /\ Len(form) > 0
  /\ \A t \in DOMAIN threads : threads[t].pc \in {"fulfilled", "rejected"}

----------------------------------------------------------------------------
(* C8 *)

RECURSIVE RedactedFrom(_, _)
\* The message with the secret of every credential path from position
\* `from` on replaced, going left to right.
RedactedFrom(s, from) ==
  IF \E i \in from..Len(s) : MatchesAt(s, i)
  THEN LET i == CHOOSE k \in from..Len(s) :
                  MatchesAt(s, k) /\ \A j \in from..k - 1 : ~MatchesAt(s, j)
       IN RedactedFrom(SubSeq(s, 1, ColonOf(s, i)) \o <<"[REDACTED]">>
                         \o SubSeq(s, CloseOf(s, i), Len(s)),
                       ColonOf(s, i) + 2)
  ELSE s

\* C8 (as stated): the message redactToken throws is the message it was
\* given with the secret of every credential path /bot<id>:<secret>/ or
\* /user<id>:<secret>/ replaced by [REDACTED] and nothing else changed, so
\* that no credential path in it still shows a secret.
C8_EverySecretRedacted ==
  thrown =>
    /\ message = RedactedFrom(params.message, 1)
    /\ \A i \in 1..Len(message) :
         MatchesAt(message, i) =>
           SubSeq(message, ColonOf(message, i) + 1, CloseOf(message, i) - 1)
             = <<"[REDACTED]">>

----------------------------------------------------------------------------
(* C9 *)

\* C9 (as stated): for a mapping without attachments, the body
\* answerToWebhook writes is the body buildJSONConfig produces, and it is
\* sent as application/json on a response whose headers were not yet sent.
C9_WebhookBodyIsJSONBody ==
  (hook = "resolved" /\ ~ContainsRef(params)) =>
    /\ response.body = buildJSONConfig(params).body
    /\ response.contentType \in {"application/json", "text/plain"}

----------------------------------------------------------------------------
(* C10 *)

\* C10 (as stated): answerToWebhook's promise resolves only after the
\* response has emitted `finish`.
C10_ResolvesAfterFinish ==
  hook = "resolved" => response.state = "finished"

====
